---- MODULE Spec2Model ----
(***************************************************************************)
(* Model of narrow_down_loop (graspify.py): the single-set narrowing       *)
(* dialogue.  One action per stretch of code between two blocking calls    *)
(* (an oracle round trip through call_gpt, or a read of user input).       *)
(*                                                                         *)
(* Oracle text is modelled by what ast.literal_eval makes of it: a list of *)
(* labels, a literal that is no list, or text that is no literal at all.   *)
(* A user line is a sequence of one-character strings.                     *)
(***************************************************************************)
EXTENDS Naturals, Integers, Sequences, FiniteSets, TLC

VARIABLES
    objects,        \* the universe passed to narrow_down_loop
    excluded,       \* the candidate list
    visited_sets,   \* the set of frozen snapshots
    frozen,         \* the snapshot taken in the current iteration
    question,       \* the text returned by categorize_and_ask
    line,           \* the raw line last returned by input()
    user_choice,    \* the stripped, upper-cased quaternary choice
    choice,         \* the stripped binary choice
    new_selection,  \* the value returned by extract_objects_from_choice
    final_obj,      \* the item printed as "Final grasp intention"
    outcome,        \* which terminating message was printed
    pc,             \* the position in narrow_down_loop
    calls,          \* call_gpt calls made since the iteration began
    asked,          \* the label sets categorize_and_ask was called with
    asked_twice     \* whether it was ever called with a set it had seen

vars == <<objects, excluded, visited_sets, frozen, question, line, user_choice,
          choice, new_selection, final_obj, outcome, pc, calls, asked,
          asked_twice>>

----------------------------------------------------------------------------
(* Bounds and input domains *)

MaxLen == 3       \* longest list an oracle reply holds

Labels == {"pen", "key", "mug"}

\* The universe narrow_down_loop is started with (object_list of __main__,
\* cut down to three labels).
object_list == <<"pen", "key", "mug">>

Lists == UNION {[1..n -> Labels] : n \in 0..MaxLen}

\* What a call_gpt call can do: raise a transport failure, or return text
\* that literal_eval rejects, evaluates to a non-list, or evaluates to a list.
Replies ==
    {[kind |-> k, val |-> <<>>] : k \in {"raise", "text", "nonlist"}}
        \cup {[kind |-> "list", val |-> l] : l \in Lists}

Whitespace == {" ", "\t"}

\* The lines the user may type at the binary prompt ...
BinaryLines == { <<"1">>, <<" ", "2", "\t">>, <<"x">>, <<>> }

\* ... and at the quaternary prompt.
ChoiceLines ==
    { <<"A">>, <<"\t", "b", " ">>, <<"c">>, <<"D">>, <<" ", "d">>,
      <<"x">>, <<>> }

\* Python's None, for a token variable and for a label variable.
NoneTok == <<"None">>
NoneLabel == "None"
NoneSel == [none |-> TRUE, val |-> <<>>]

----------------------------------------------------------------------------
(* Pure helpers *)

ToSet(s) == {s[i] : i \in 1..Len(s)}

\* str.strip()
RECURSIVE LStrip(_)
LStrip(t) == IF t # <<>> /\ Head(t) \in Whitespace THEN LStrip(Tail(t)) ELSE t

RECURSIVE RStrip(_)
RStrip(t) ==
    IF t # <<>> /\ t[Len(t)] \in Whitespace
    THEN RStrip(SubSeq(t, 1, Len(t) - 1))
    ELSE t

\* a slip: lstrip() where strip() was meant
StripLeftOnly(t) == LStrip(t)

Strip(t) == RStrip(LStrip(t))

\* str.upper(), character by character
UpperChar(c) ==
    CASE c = "a" -> "A"
      [] c = "b" -> "B"
      [] c = "c" -> "C"
      [] c = "d" -> "D"
      [] c = "x" -> "X"
      [] OTHER -> c

\* a slip: the .upper() call left out
UpperForgotten(t) == t

Upper(t) == [i \in 1..Len(t) |-> UpperChar(t[i])]

\* a slip: the raw text returned as a one-item list when parsing fails
filter_objects_by_grasp_raw(reply) ==
    IF reply.kind = "list" THEN reply.val ELSE <<"text">>

\* filter_objects_by_grasp: the parsed list, or [] when parsing fails
filter_objects_by_grasp(reply) ==
    IF reply.kind = "list" THEN reply.val ELSE <<>>

\* a slip: the raw text returned as a one-item list when parsing fails
extract_objects_from_choice_raw(reply) ==
    IF reply.kind = "list"
    THEN [none |-> FALSE, val |-> reply.val]
    ELSE [none |-> FALSE, val |-> <<"text">>]

\* extract_objects_from_choice: the parsed list, or None when parsing fails
extract_objects_from_choice(reply) ==
    IF reply.kind = "list" THEN [none |-> FALSE, val |-> reply.val] ELSE NoneSel

\* a slip: `new_selection is None` where `not new_selection` was meant
FalsyNoneOnly(sel) == sel.none

\* `not new_selection`
Falsy(sel) == sel.none \/ sel.val = <<>>

\* a slip: the line compared with the integers 1 and 2, which no string equals
ValidBinaryInts(c) == FALSE

\* `choice not in ["1", "2"]` negated
ValidBinary(c) == c \in {<<"1">>, <<"2">>}

\* a slip: the validation of the choice left out
ValidChoiceAnything(c) == TRUE

\* `user_choice not in ["A", "B", "C", "D"]` negated
ValidChoice(c) == c \in {<<"A">>, <<"B">>, <<"C">>, <<"D">>}

\* a slip: the list, never a member of visited_sets, tested in place of frozen
IsVisitedNever(fz, vs) == FALSE

\* `frozen in visited_sets`
IsVisited(fz, vs) == fz \in vs

\* a slip: the list compared with the set, which are never equal
SameSetListVsSet(l, s) == FALSE

\* a slip: the sizes compared in place of the sets
SameSetBySize(l, s) == Len(l) = Cardinality(s)

\* `set(new_selection) == set(excluded)`
SameSet(l, s) == ToSet(l) = s

\* a slip: the snapshot never recorded
AddSnapshotForgotten(vs, fz) == vs

\* `visited_sets.add(frozen)`
AddSnapshot(vs, fz) == vs \cup {fz}

----------------------------------------------------------------------------
(* Initial state: narrow_down_loop has just been called *)

Init ==
    /\ objects = object_list
    /\ excluded = <<>>
    /\ visited_sets = {}
    /\ frozen = {}
    /\ question = "None"
    /\ line = NoneTok
    /\ user_choice = NoneTok
    /\ choice = NoneTok
    /\ new_selection = NoneSel
    /\ final_obj = NoneLabel
    /\ outcome = "none"
    /\ pc = "filter"
    /\ calls = 0
    /\ asked = {}
    /\ asked_twice = FALSE

\* an uncaught exception out of call_gpt ends the run
Fault ==
    /\ pc' = "fault"
    /\ outcome' = "uncaught"
    /\ calls' = calls + 1
    /\ UNCHANGED <<objects, excluded, visited_sets, frozen, question, line,
                   user_choice, choice, new_selection, final_obj, asked, asked_twice>>

\* a slip: the message printed without the item
FinishNoItem(msg, obj) ==
    /\ pc' = "done"
    /\ outcome' = msg
    /\ final_obj' = NoneLabel

\* a return that prints a terminating message
Finish(msg, obj) ==
    /\ pc' = "done"
    /\ outcome' = msg
    /\ final_obj' = obj

----------------------------------------------------------------------------
(* Actions *)

\* lines 104-127: the exclusion filter and the checks before the loop
FilterObjects(reply) ==
    /\ pc = "filter"
    /\ IF reply.kind = "raise" THEN Fault
       ELSE LET ex == filter_objects_by_grasp(reply) IN
            /\ excluded' = ex
            /\ calls' = calls + 1
            /\ IF ex = <<>> THEN Finish("no_exclusion", final_obj)
               ELSE IF Len(ex) = 1 THEN Finish("success", ex[1])
               ELSE IF Len(ex) = 2
                    THEN pc' = "binary_pre" /\ UNCHANGED <<outcome, final_obj>>
                    ELSE pc' = "loop" /\ UNCHANGED <<outcome, final_obj>>
            /\ UNCHANGED <<objects, visited_sets, frozen, question, line,
                           user_choice, choice, new_selection, asked, asked_twice>>

\* a slip: the two positions swapped
BinaryReadSwapped(tok) ==
    /\ line' = tok
    /\ choice' = Strip(tok)
    /\ IF ValidBinary(choice')
       THEN Finish("success",
                   IF choice' = <<"1">> THEN excluded[2] ELSE excluded[1])
       ELSE UNCHANGED <<pc, outcome, final_obj>>
    /\ UNCHANGED <<objects, excluded, visited_sets, frozen, question,
                   user_choice, new_selection, calls, asked, asked_twice>>

\* one pass of `while choice not in ["1", "2"]: choice = input(...).strip()`
BinaryRead(tok) ==
    /\ line' = tok
    /\ choice' = Strip(tok)
    /\ IF ValidBinary(choice')
       THEN Finish("success",
                   IF choice' = <<"1">> THEN excluded[1] ELSE excluded[2])
       ELSE UNCHANGED <<pc, outcome, final_obj>>
    /\ UNCHANGED <<objects, excluded, visited_sets, frozen, question,
                   user_choice, new_selection, calls, asked, asked_twice>>

\* lines 117-125: the binary prompt reached directly after filtering
BinaryChoicePre(tok) == pc = "binary_pre" /\ BinaryRead(tok)

\* lines 137-144: the binary prompt reached inside the loop
BinaryChoiceLoop(tok) == pc = "binary_loop" /\ BinaryRead(tok)

\* a slip: the check for exactly two items left out of the loop
LoopTopNoPairCheck ==
    /\ pc = "loop"
    /\ calls' = 0
    /\ IF excluded = <<>>
       THEN Finish("undetermined", final_obj) /\ UNCHANGED <<visited_sets, frozen>>
       ELSE IF Len(excluded) = 1
       THEN Finish("success", excluded[1]) /\ UNCHANGED <<visited_sets, frozen>>
       ELSE /\ frozen' = ToSet(excluded)
            /\ IF IsVisited(frozen', visited_sets)
               THEN Finish("stuck", final_obj) /\ UNCHANGED visited_sets
               ELSE /\ visited_sets' = AddSnapshot(visited_sets, frozen')
                    /\ pc' = "categorize"
                    /\ UNCHANGED <<outcome, final_obj>>
    /\ UNCHANGED <<objects, excluded, question, line, user_choice, choice,
                   new_selection, asked, asked_twice>>

\* lines 130-151 and 191-195: the loop test, the size checks, the cycle check
LoopTop ==
    /\ pc = "loop"
    /\ calls' = 0
    /\ IF excluded = <<>>
       THEN Finish("undetermined", final_obj) /\ UNCHANGED <<visited_sets, frozen>>
       ELSE IF Len(excluded) = 1
       THEN Finish("success", excluded[1]) /\ UNCHANGED <<visited_sets, frozen>>
       ELSE IF Len(excluded) = 2
       THEN /\ pc' = "binary_loop"
            /\ UNCHANGED <<outcome, final_obj, visited_sets, frozen>>
       ELSE /\ frozen' = ToSet(excluded)
            /\ IF IsVisited(frozen', visited_sets)
               THEN Finish("stuck", final_obj) /\ UNCHANGED visited_sets
               ELSE /\ visited_sets' = AddSnapshot(visited_sets, frozen')
                    /\ pc' = "categorize"
                    /\ UNCHANGED <<outcome, final_obj>>
    /\ choice' = IF Len(excluded) = 2 THEN NoneTok ELSE choice
    /\ UNCHANGED <<objects, excluded, question, line, user_choice,
                   new_selection, asked, asked_twice>>

\* line 154: question = categorize_and_ask(excluded)
CategorizeAndAsk(raised) ==
    /\ pc = "categorize"
    /\ asked' = asked \cup {ToSet(excluded)}
    /\ asked_twice' = (asked_twice \/ ToSet(excluded) \in asked)
    /\ IF raised
       THEN /\ pc' = "fault"
            /\ outcome' = "uncaught"
            /\ calls' = calls + 1
            /\ UNCHANGED question
       ELSE /\ question' = "question"
            /\ pc' = "choice"
            /\ calls' = calls + 1
            /\ UNCHANGED outcome
    /\ UNCHANGED <<objects, excluded, visited_sets, frozen, line, user_choice,
                   choice, new_selection, final_obj>>

\* lines 157-161: the quaternary prompt
UserChoice(tok) ==
    /\ pc = "choice"
    /\ line' = tok
    /\ user_choice' = Upper(Strip(tok))
    /\ IF ValidChoice(user_choice')
       THEN pc' = "extract" /\ UNCHANGED <<outcome, final_obj>>
       ELSE Finish("invalid_choice", final_obj)
    /\ UNCHANGED <<objects, excluded, visited_sets, frozen, question, choice,
                   new_selection, calls, asked, asked_twice>>

\* lines 164-176: the catch-all branch
ExtractOther(reply) ==
    /\ pc = "extract"
    /\ user_choice = <<"D">>
    /\ IF reply.kind = "raise" THEN Fault
       ELSE LET sel == extract_objects_from_choice(reply) IN
            /\ new_selection' = sel
            /\ calls' = calls + 1
            /\ IF Falsy(sel)
               THEN Finish("no_other", final_obj) /\ UNCHANGED excluded
               ELSE /\ excluded' = sel.val
                    /\ IF SameSet(sel.val, frozen)
                       THEN Finish("other_no_reduce", final_obj)
                       ELSE pc' = "loop" /\ UNCHANGED <<outcome, final_obj>>
            /\ UNCHANGED <<objects, visited_sets, frozen, question, line,
                           user_choice, choice, asked, asked_twice>>

\* lines 178-189: the named-category branch
ExtractCategory(reply) ==
    /\ pc = "extract"
    /\ user_choice # <<"D">>
    /\ IF reply.kind = "raise" THEN Fault
       ELSE LET sel == extract_objects_from_choice(reply) IN
            /\ new_selection' = sel
            /\ calls' = calls + 1
            /\ IF Falsy(sel)
               THEN pc' = "loop" /\ UNCHANGED <<excluded, outcome, final_obj>>
               ELSE IF SameSet(sel.val, ToSet(excluded))
               THEN Finish("no_refinement", final_obj) /\ UNCHANGED excluded
               ELSE /\ excluded' = sel.val
                    /\ pc' = "loop"
                    /\ UNCHANGED <<outcome, final_obj>>
            /\ UNCHANGED <<objects, visited_sets, frozen, question, line,
                           user_choice, choice, asked, asked_twice>>

Next ==
    \/ \E reply \in Replies : FilterObjects(reply)
    \/ \E tok \in BinaryLines : BinaryChoicePre(tok)
    \/ LoopTop
    \/ \E tok \in BinaryLines : BinaryChoiceLoop(tok)
    \/ \E raised \in BOOLEAN : CategorizeAndAsk(raised)
    \/ \E tok \in ChoiceLines : UserChoice(tok)
    \/ \E reply \in Replies : ExtractOther(reply)
    \/ \E reply \in Replies : ExtractCategory(reply)

Spec == Init /\ [][Next]_vars

\* The user eventually types "1" or "2" at a binary prompt.
BinaryAnswered ==
    \E tok \in BinaryLines :
        /\ ValidBinary(Strip(tok))
        /\ (BinaryChoicePre(tok) \/ BinaryChoiceLoop(tok))

\* Every blocking call returns (or raises), and the user eventually answers
\* a binary prompt with "1" or "2".
FairSpec == Spec /\ WF_vars(Next) /\ WF_vars(BinaryAnswered)

----------------------------------------------------------------------------
(* filter_objects_by_grasp alone, over every universe drawn from Labels *)

Universes == {l \in Lists : l # <<>> /\ Cardinality(ToSet(l)) = Len(l)}

InitFilter ==
    /\ objects \in Universes
    /\ excluded = <<>>
    /\ visited_sets = {}
    /\ frozen = {}
    /\ question = "None"
    /\ line = NoneTok
    /\ user_choice = NoneTok
    /\ choice = NoneTok
    /\ new_selection = NoneSel
    /\ final_obj = NoneLabel
    /\ outcome = "none"
    /\ pc = "filter"
    /\ calls = 0
    /\ asked = {}
    /\ asked_twice = FALSE

NextFilter == \E reply \in Replies : FilterObjects(reply)

FilterSpec == InitFilter /\ [][NextFilter]_vars

----------------------------------------------------------------------------
(* Vocabulary of the properties *)

BinaryPcs == {"binary_pre", "binary_loop"}
Named == {<<"A">>, <<"B">>, <<"C">>}
CatchAll == <<"D">>

\* t is one character of cs, with nothing but whitespace around it
OneCharOf(t, cs) ==
    \E i \in 1..Len(t) :
        /\ t[i] \in cs
        /\ \A j \in 1..Len(t) : j # i => t[j] \in Whitespace

\* the letter a quaternary line stands for
LetterOf(t) ==
    IF OneCharOf(t, {"A", "a"}) THEN <<"A">>
    ELSE IF OneCharOf(t, {"B", "b"}) THEN <<"B">>
    ELSE IF OneCharOf(t, {"C", "c"}) THEN <<"C">>
    ELSE <<"D">>

IsLetterLine(t) == OneCharOf(t, {"A", "a", "B", "b", "C", "c", "D", "d"})
IsDigitLine(t) == OneCharOf(t, {"1", "2"})

\* the oracle answered the extraction call of this step
Extracted == pc = "extract" /\ pc' # "fault"

----------------------------------------------------------------------------
(* C1 *)

\* C1: each time the loop reaches the partition step it adds to visited_sets
\* the snapshot of the current candidate list, which was not in it, so
\* visited_sets grows by exactly one; and categorize_and_ask is never called
\* twice with candidate lists holding the same set of labels.
C1_VisitedStrictlyGrows ==
    /\ [](~asked_twice)
    /\ [][ (pc = "loop" /\ pc' = "categorize") =>
              /\ ToSet(excluded) \notin visited_sets
              /\ visited_sets' = visited_sets \cup {ToSet(excluded)}
              /\ Cardinality(visited_sets') = Cardinality(visited_sets) + 1 ]_vars
    /\ [][ pc = "categorize" =>
              /\ ToSet(excluded) \in visited_sets
              /\ ToSet(excluded) \notin asked ]_vars

C1_Witness ==
    /\ pc = "choice"
    /\ Cardinality(visited_sets) = 2
    /\ Cardinality(asked) = 2

----------------------------------------------------------------------------
(* C2 *)

\* C2: if at the top of a loop iteration the candidate list has 3 or more
\* items and its label set is already in visited_sets, the run ends with the
\* "stuck" (cycle detected) message, having made no oracle call in that
\* iteration, and nothing happens after it.
C2_CycleEndsRun ==
    /\ [][ (pc = "loop" /\ Len(excluded) >= 3
                /\ ToSet(excluded) \in visited_sets) =>
              /\ pc' = "done"
              /\ outcome' = "stuck"
              /\ calls' = 0
              /\ line' = line
              /\ final_obj' = NoneLabel
              /\ excluded' = excluded ]_vars
    /\ [][ outcome # "stuck" ]_vars

C2_Witness ==
    /\ outcome = "stuck"
    /\ Len(excluded) >= 3
    /\ ToSet(excluded) \in visited_sets

----------------------------------------------------------------------------
(* C3 *)

\* C3: as long as no oracle call raises, and binary prompts are eventually
\* answered with "1" or "2", every run reaches a terminal message.
C3_Terminates == [](pc # "fault") => <>(pc = "done")

C3_Witness ==
    /\ pc = "done"
    /\ Cardinality(visited_sets) = 3
    /\ outcome = "success"

----------------------------------------------------------------------------
(* C4 *)

\* C4: when a named category is picked and nothing is extracted, the run does
\* not end: the candidate list and visited_sets stay as they are and the same
\* candidate list is partitioned and offered again.
C4_EmptyCategoryRetries ==
    /\ [][ (Extracted /\ user_choice \in Named /\ Falsy(new_selection')) =>
              /\ pc' = "loop"
              /\ excluded' = excluded
              /\ visited_sets' = visited_sets ]_vars
    /\ [][ (pc = "loop" /\ user_choice \in Named /\ Falsy(new_selection)) =>
              /\ pc' = "categorize"
              /\ excluded' = excluded
              /\ visited_sets' = visited_sets ]_vars

----------------------------------------------------------------------------
(* C5 *)

\* C5: when a named category is picked and the extracted members are
\* non-empty and equal, as a set, to the current candidate set, the run ends
\* with the "no refinement" message, the candidate list is not replaced, and
\* nothing happens after it.
C5_NoRefinementEndsRun ==
    /\ [][ (Extracted /\ user_choice \in Named /\ ~Falsy(new_selection')
                /\ ToSet(new_selection'.val) = ToSet(excluded)) =>
              /\ pc' = "done"
              /\ outcome' = "no_refinement"
              /\ excluded' = excluded
              /\ final_obj' = NoneLabel ]_vars
    /\ [][ outcome # "no_refinement" ]_vars

C5_Witness ==
    /\ outcome = "no_refinement"
    /\ user_choice \in Named
    /\ new_selection.val # excluded
    /\ ToSet(new_selection.val) = ToSet(excluded)

----------------------------------------------------------------------------
(* C6 *)

\* C6: when the catch-all is picked: an empty or unparseable leftover list
\* ends the run ("no items in catch-all"); a leftover list equal, as a set, to
\* the candidate set just partitioned ends the run ("catch-all did not reduce
\* the set"); any other leftover list becomes the candidate list, visited_sets
\* is left alone, and the size checks come first: one item ends the run in
\* success, two items lead to the binary prompt.
C6_CatchAll ==
    /\ [][ (Extracted /\ user_choice = CatchAll) =>
              IF Falsy(new_selection')
              THEN pc' = "done" /\ outcome' = "no_other"
              ELSE IF ToSet(new_selection'.val) = ToSet(excluded)
              THEN pc' = "done" /\ outcome' = "other_no_reduce"
              ELSE /\ pc' = "loop"
                   /\ excluded' = new_selection'.val
                   /\ visited_sets' = visited_sets
                   /\ outcome' = "none" ]_vars
    /\ [][ (pc = "loop" /\ user_choice = CatchAll /\ Len(excluded) <= 2) =>
              /\ visited_sets' = visited_sets
              /\ asked' = asked
              /\ calls' = 0
              /\ IF Len(excluded) = 1
                 THEN pc' = "done" /\ outcome' = "success"
                        /\ final_obj' = excluded[1]
                 ELSE pc' = "binary_loop" ]_vars
    /\ [][ outcome \notin {"no_other", "other_no_reduce"} ]_vars

C6_Witness ==
    /\ pc = "binary_loop"
    /\ user_choice = CatchAll
    /\ new_selection.val = excluded
    /\ ToSet(excluded) # frozen

----------------------------------------------------------------------------
(* C7 *)

\* C7: at the quaternary prompt a line that is not one of A, B, C, D (in
\* either case, with whitespace around it) ends the run at once with the
\* "invalid choice" message: no oracle call, no change of the candidate list,
\* nothing after it; a line that is one of them, in either case, is taken as
\* that letter and the run goes on to the extraction.
C7_InvalidChoiceEndsRun ==
    /\ [][ pc = "choice" =>
              IF IsLetterLine(line')
              THEN /\ pc' = "extract"
                   /\ user_choice' = LetterOf(line')
                   /\ outcome' = "none"
              ELSE /\ pc' = "done"
                   /\ outcome' = "invalid_choice"
                   /\ calls' = calls
                   /\ excluded' = excluded
                   /\ new_selection' = new_selection
                   /\ visited_sets' = visited_sets ]_vars
    /\ [][ outcome # "invalid_choice" ]_vars

C7_Witness ==
    /\ outcome = "invalid_choice"
    /\ line = <<"x">>
    /\ calls = 1

----------------------------------------------------------------------------
(* C8 *)

\* C8 as stated: at a binary prompt a line that is not "1" or "2" ends the
\* run with the "invalid choice" message.
C8_InvalidBinaryEndsRun ==
    [][ (pc \in BinaryPcs /\ ~IsDigitLine(line')) =>
            pc' = "done" /\ outcome' = "invalid_choice" ]_vars

\* C8 as amended: at a binary prompt (either one) a line that is not "1" or
\* "2" once trimmed ends nothing: the prompt is asked again with the
\* candidate list unchanged; a line that is "1" or "2" once trimmed ends the
\* run in success with that item of the pair.
C8_InvalidBinaryAsksAgain ==
    [][ (pc \in BinaryPcs) =>
            IF IsDigitLine(line')
            THEN /\ pc' = "done"
                 /\ outcome' = "success"
                 /\ final_obj' =
                      IF OneCharOf(line', {"1"}) THEN excluded[1] ELSE excluded[2]
            ELSE /\ pc' = pc
                 /\ outcome' = "none"
                 /\ excluded' = excluded
                 /\ calls' = calls ]_vars

C8_Witness ==
    /\ pc = "binary_loop"
    /\ line = <<"x">>
    /\ choice = <<"x">>

----------------------------------------------------------------------------
(* C9 *)

\* C9: once the filter has answered, the candidate list has no duplicate
\* labels and holds only labels of the universe, and the item reported on
\* success is a label of the universe.
C9_CandidatesWithinUniverse ==
    pc \notin {"filter", "fault"} =>
        /\ Cardinality(ToSet(excluded)) = Len(excluded)
        /\ ToSet(excluded) \subseteq ToSet(objects)
        /\ (outcome = "success" => final_obj \in ToSet(objects))

----------------------------------------------------------------------------
(* C10 *)

\* C10: the list filter_objects_by_grasp returns holds only labels of the
\* list it was given.
C10_FilterReturnsSubset ==
    pc \notin {"filter", "fault"} => ToSet(excluded) \subseteq ToSet(objects)

----------------------------------------------------------------------------
(* C11 *)

\* C11: whenever the size checks find a candidate list of exactly one item,
\* right after the filter or at the top of a loop iteration, the run ends in
\* success reporting that item, with no partition, no oracle call and no
\* read of user input in between, and nothing after it.
C11_SingletonEndsRun ==
    /\ [][ (pc = "filter" /\ pc' # "fault" /\ Len(excluded') = 1) =>
              /\ pc' = "done"
              /\ outcome' = "success"
              /\ final_obj' = excluded'[1]
              /\ calls' = 1
              /\ line' = line
              /\ asked' = asked ]_vars
    /\ [][ (pc = "loop" /\ Len(excluded) = 1) =>
              /\ pc' = "done"
              /\ outcome' = "success"
              /\ final_obj' = excluded[1]
              /\ calls' = 0
              /\ line' = line
              /\ asked' = asked
              /\ visited_sets' = visited_sets ]_vars
    /\ [][ outcome # "success" ]_vars

C11_Witness ==
    /\ outcome = "success"
    /\ Len(excluded) = 1
    /\ final_obj = excluded[1]
    /\ new_selection.val = excluded
    /\ visited_sets # {}

----------------------------------------------------------------------------
(* C12 *)

\* C12: whenever the size checks find a candidate list of exactly two items,
\* the next thing is the binary prompt, with no oracle call; a line that is
\* "1" ends the run in success with the first item, a line that is "2" with
\* the second; the item reported is one of the two.
C12_PairAsksBinary ==
    /\ [][ (pc = "filter" /\ pc' # "fault" /\ Len(excluded') = 2) =>
              pc' = "binary_pre" /\ calls' = 1 /\ asked' = asked ]_vars
    /\ [][ (pc = "loop" /\ Len(excluded) = 2) =>
              /\ pc' = "binary_loop"
              /\ calls' = 0
              /\ asked' = asked
              /\ visited_sets' = visited_sets ]_vars
    /\ [][ (pc \in BinaryPcs) =>
              /\ Len(excluded) = 2
              /\ calls' = calls
              /\ asked' = asked
              /\ excluded' = excluded
              /\ (OneCharOf(line', {"1"}) =>
                    pc' = "done" /\ outcome' = "success"
                        /\ final_obj' = excluded[1])
              /\ (OneCharOf(line', {"2"}) =>
                    pc' = "done" /\ outcome' = "success"
                        /\ final_obj' = excluded[2])
              /\ (pc' = "done" => final_obj' \in ToSet(excluded)) ]_vars

C12_Witness ==
    /\ outcome = "success"
    /\ Len(excluded) = 2
    /\ excluded[1] # excluded[2]
    /\ line = <<" ", "2", "\t">>
    /\ final_obj = excluded[2]

----------------------------------------------------------------------------
(* C13 *)

\* C13: when the oracle answers the filter with an empty list or with text
\* that does not parse as a list, the run ends with the "no exclusion"
\* message: no snapshot, no partition, no read of user input, no item
\* reported, and nothing after it.
C13_EmptyFilterEndsRun ==
    /\ [][ \A reply \in Replies :
              (/\ FilterObjects(reply)
               /\ reply.kind # "raise"
               /\ (reply.kind = "list" => reply.val = <<>>)) =>
                  /\ pc' = "done"
                  /\ outcome' = "no_exclusion"
                  /\ excluded' = <<>>
                  /\ final_obj' = NoneLabel
                  /\ visited_sets' = {}
                  /\ asked' = {}
                  /\ line' = NoneTok ]_vars
    /\ [][ outcome # "no_exclusion" ]_vars

C13_Witness ==
    /\ outcome = "no_exclusion"
    /\ pc = "done"
    /\ excluded = <<>>

----------------------------------------------------------------------------
(* C14 *)

LoopPcs == {"loop", "categorize", "choice", "extract", "binary_loop"}

\* C14 as stated: a loop iteration makes at most one call_gpt call, and every
\* call_gpt call of the loop that returns is followed by a read of user
\* input.
C14_OneRoundTripPerIteration ==
    /\ [](calls <= 1)
    /\ [][ (pc \in {"categorize", "extract"} /\ pc' # "fault") =>
              pc' = "choice" ]_vars

\* C14 as amended: a loop iteration makes at most two call_gpt calls: the
\* partition call, made first; then exactly one read of the quaternary
\* choice; then, only when the choice is valid, the extraction call, after
\* which the iteration ends with no further read.
C14_TwoRoundTripsPerIteration ==
    /\ [](calls <= 2)
    /\ [][ pc = "categorize" =>
              /\ calls = 0
              /\ calls' = 1
              /\ line' = line
              /\ pc' \in {"choice", "fault"} ]_vars
    /\ [][ pc = "choice" =>
              /\ calls' = 1
              /\ line' \in ChoiceLines
              /\ pc' = (IF IsLetterLine(line') THEN "extract" ELSE "done") ]_vars
    /\ [][ pc = "extract" =>
              /\ calls = 1
              /\ calls' = 2
              /\ line' = line
              /\ pc' \in {"loop", "done", "fault"} ]_vars
    /\ [][ (pc = "loop") => calls' = 0 ]_vars
    /\ [][ (pc = "binary_loop") => calls = 0 /\ calls' = 0 ]_vars

C14_Witness ==
    /\ pc = "loop"
    /\ calls = 2
    /\ line \in ChoiceLines

----------------------------------------------------------------------------
(* C15 *)

\* C15: text that does not parse as a list is never fatal: the filter yields
\* the empty list and the run ends with the "no exclusion" message; the
\* extraction yields None and the run ends with the "no items in catch-all"
\* message (catch-all) or goes back to the top of the loop with the candidate
\* list kept (named category); in no case does the run end in an uncaught
\* error.
C15_ParseFailureIsNotFatal ==
    [][ \A reply \in Replies :
          reply.kind \in {"text", "nonlist"} =>
            /\ FilterObjects(reply) =>
                  /\ excluded' = <<>>
                  /\ pc' = "done"
                  /\ outcome' = "no_exclusion"
            /\ ExtractOther(reply) =>
                  /\ new_selection' = NoneSel
                  /\ excluded' = excluded
                  /\ pc' = "done"
                  /\ outcome' = "no_other"
            /\ ExtractCategory(reply) =>
                  /\ new_selection' = NoneSel
                  /\ excluded' = excluded
                  /\ pc' = "loop"
                  /\ outcome' = "none" ]_vars

C15_Witness ==
    /\ pc = "loop"
    /\ new_selection = NoneSel
    /\ user_choice \in Named
    /\ calls = 2

----------------------------------------------------------------------------
(* C16 *)

\* C16: categorize_and_ask is only ever called with a candidate list of three
\* or more items.
C16_PartitionNeedsThree ==
    pc = "categorize" => Len(excluded) >= 3

C16_Witness ==
    /\ pc = "categorize"
    /\ Len(excluded) = 3
    /\ Cardinality(visited_sets) = 2
    /\ new_selection.val = excluded

----------------------------------------------------------------------------
(* C17 *)

\* C17: when a named category is picked and its extracted members are
\* non-empty and differ, as a set, from the current candidate set, they
\* become the candidate list, with no snapshot and no partition call, and the
\* size checks come next: if the new list has two items the next step leads
\* to the binary prompt with no oracle call.
C17_CategoryNarrows ==
    /\ [][ (Extracted /\ user_choice \in Named /\ ~Falsy(new_selection')
                /\ ToSet(new_selection'.val) # ToSet(excluded)) =>
              /\ pc' = "loop"
              /\ excluded' = new_selection'.val
              /\ outcome' = "none"
              /\ visited_sets' = visited_sets
              /\ asked' = asked ]_vars
    /\ [][ (pc = "loop" /\ user_choice \in Named /\ ~Falsy(new_selection)
                /\ Len(excluded) = 2) =>
              /\ pc' = "binary_loop"
              /\ excluded' = excluded
              /\ calls' = 0
              /\ visited_sets' = visited_sets
              /\ asked' = asked ]_vars

C17_Witness ==
    /\ pc = "binary_loop"
    /\ user_choice \in Named
    /\ new_selection.val = excluded
    /\ ToSet(excluded) # frozen
    /\ line \in ChoiceLines

----------------------------------------------------------------------------
(* C18 *)

\* C18: a transport failure raised by call_gpt never ends the run as an
\* uncaught error.
C18_TransportFailureIsHandled == pc # "fault" /\ outcome # "uncaught"

----------------------------------------------------------------------------
(* C19 *)

\* C19: inside the loop the candidate list is never empty, so `while
\* excluded` never fails and the message after the loop is never printed.
C19_LoopNeverFallsThrough ==
    /\ (pc \in LoopPcs => excluded # <<>>)
    /\ outcome # "undetermined"

C19_Witness ==
    /\ pc = "loop"
    /\ ~Falsy(new_selection)
    /\ excluded = new_selection.val
    /\ user_choice = CatchAll

----------------------------------------------------------------------------
(* C20 *)

\* C20: every time the loop replaces the candidate list with an accepted
\* selection, the new candidate set is a strict subset of the set that was
\* partitioned, so it has fewer labels.
C20_NarrowingIsMonotone ==
    [][ (Extracted /\ pc' = "loop" /\ ~Falsy(new_selection')) =>
            /\ excluded' = new_selection'.val
            /\ ToSet(excluded') \subseteq ToSet(excluded)
            /\ ToSet(excluded') # ToSet(excluded)
            /\ Cardinality(ToSet(excluded')) < Cardinality(ToSet(excluded)) ]_vars

====
